---------------------------- MODULE Spec2Model ----------------------------
(***************************************************************************)
(* A model of dotnet-rs (src/src/main.rs): the address mapper              *)
(* (find_offset), the metadata-root decoder, the `#~` table-stream decoder *)
(* and the driver (main) that reports the entry-point name.                *)
(*                                                                         *)
(* Buffers are sequences of bytes (0..255); a byte offset o of the code    *)
(* is element o + 1 of the sequence.  usize is 64 bits wide: sums of       *)
(* u32 values never wrap in it.  u32 arithmetic (the row-width product of  *)
(* the table-stream decoder) keeps its width.  TLC's integers are 32 bits *)
(* wide, so a u32 product is computed in 16-bit limbs.  Integers are read  *)
(* little-endian (scroll::LE, and the native order of the hosts the        *)
(* default context stands for).                                            *)
(***************************************************************************)
EXTENDS Integers, Sequences, FiniteSets

VARIABLES
    pc,               \* position of the running operation
    pe,               \* what PE::parse found: machine, optional and CLI headers
    build,            \* "debug" (overflow checks) or "release" (wrapping)
    sections,         \* pe.sections: sequence of section descriptors
    file_alignment,   \* optional_header.windows_fields.file_alignment
    rva,              \* the virtual address handed to find_offset
    offset,           \* the Option<usize> find_offset returned
    file,             \* the byte buffer being decoded
    given,            \* what the buffer was built from (ghost)
    root,             \* result of MetadataRoot::try_from_ctx
    tilda_stream,     \* result of TildaStream::try_from_ctx
    cli_header_value, \* result of reading the CliHeader
    name,             \* the entry-point name main prints
    ret               \* how main ended

vars == <<pc, pe, build, sections, file_alignment, rva, offset, file, given,
          root, tilda_stream, cli_header_value, name, ret>>

Builds == {"debug", "release"}

Min(a, b) == IF a <= b THEN a ELSE b

\* values of the result variables before the operation has run
NoRoot ==
    [tag |-> "None", signature |-> 0, major_version |-> 0, minor_version |-> 0,
     length |-> 0, version |-> <<>>, flags |-> 0, streams |-> 0,
     stream_headers |-> <<>>, off |-> 0]

NoTilda ==
    [tag |-> "None", why |-> "", stage |-> "", valid |-> <<>>, rows |-> <<>>,
     methods |-> <<>>, off |-> 0]

NoPe == [machine |-> 332, optional_header |-> TRUE, clr_runtime_header |-> TRUE]

NoCli == [tag |-> "None", metadata_va |-> 0, entry_point_token |-> 0]

(***************************************************************************)
(* Bit operations on naturals.                                             *)
(***************************************************************************)
RECURSIVE BitAnd(_, _)
BitAnd(x, y) ==
    IF x = 0 \/ y = 0 THEN 0
    ELSE (x % 2) * (y % 2) + 2 * BitAnd(x \div 2, y \div 2)

\* x & !m for a mask m that fits the low bits of x
AndNot(x, m) == x - BitAnd(x, m)

(***************************************************************************)
(* The address mapper.                                                     *)
(***************************************************************************)
PHYSICAL_ALIGN == 511
PAGE_MASK == 4095

None == [tag |-> "None", val |-> 0]
Some(v) == [tag |-> "Some", val |-> v]
Panicked == [tag |-> "Panic", val |-> 0]

aligned_pointer_to_raw_data_unmasked(pointer_to_raw_data) == pointer_to_raw_data

aligned_pointer_to_raw_data(pointer_to_raw_data) ==
    AndNot(pointer_to_raw_data, PHYSICAL_ALIGN)

round_size(size) == AndNot(size + PAGE_MASK, PAGE_MASK)

is_in_range(a, r1, r2) == r1 <= a /\ a < r2

\* `file_alignment - 1` underflows when file_alignment is 0: a panic under
\* overflow checks; wrapping, the mask !(2^64 - 1) is 0 and so is the result.
section_read_size_panics(fa, bld) == fa = 0 /\ bld = "debug"

section_read_size(section, fa, bld) ==
    LET size_of_raw_data == section.size_of_raw_data
        virtual_size == section.virtual_size
        read_size0 ==
            IF fa = 0 THEN 0
            ELSE AndNot(section.pointer_to_raw_data + size_of_raw_data + fa - 1,
                        fa - 1)
        read_size == Min(read_size0, round_size(size_of_raw_data))
    IN  IF virtual_size = 0 THEN read_size
        ELSE Min(read_size, round_size(virtual_size))

is_in_section(a, section, fa, bld) ==
    is_in_range(a, section.virtual_address,
                section.virtual_address + section_read_size(section, fa, bld))

rva2offset(a, section) ==
    (a - section.virtual_address)
        + aligned_pointer_to_raw_data(section.pointer_to_raw_data)

RECURSIVE find_offset_from(_, _, _, _, _)
find_offset_from(i, a, secs, fa, bld) ==
    IF i > Len(secs) THEN None
    ELSE IF section_read_size_panics(fa, bld) THEN Panicked
    ELSE IF is_in_section(a, secs[i], fa, bld) THEN Some(rva2offset(a, secs[i]))
    ELSE find_offset_from(i + 1, a, secs, fa, bld)

find_offset(a, secs, fa, bld) == find_offset_from(1, a, secs, fa, bld)


(***************************************************************************)
(* scroll's reads (Pread::gread_with / gread): a read at an offset at or   *)
(* past the end of the buffer, or of more bytes than remain, is an error.  *)
(***************************************************************************)
RECURSIVE LittleEndian(_, _, _)
LittleEndian(src, o, n) ==
    IF n = 0 THEN 0 ELSE src[o + 1] + 256 * LittleEndian(src, o + 1, n - 1)

\* an integer of n bytes at offset o
gread_int(src, o, n) ==
    IF o >= Len(src) \/ Len(src) - o < n
    THEN [ok |-> FALSE, val |-> 0, off |-> o]
    ELSE [ok |-> TRUE, val |-> LittleEndian(src, o, n), off |-> o + n]

\* the bytes [o, o + n) kept as they are (a u64 bitmask)
gread_bytes(src, o, n) ==
    IF o >= Len(src) \/ Len(src) - o < n
    THEN [ok |-> FALSE, val |-> <<>>, off |-> o]
    ELSE [ok |-> TRUE, val |-> SubSeq(src, o + 1, o + n), off |-> o + n]

\* number of bytes from offset o up to the first 0 byte or the buffer's end
RECURSIVE take_while_not_nul(_, _)
take_while_not_nul(src, o) ==
    IF o >= Len(src) \/ src[o + 1] = 0 THEN 0
    ELSE 1 + take_while_not_nul(src, o + 1)

\* a &str with the default context StrCtx::Delimiter(NULL): the cursor moves
\* past the delimiter, also when the buffer ended before one was found
\* str::from_utf8 refuses a byte >= 0x80 that no lead byte (0xC2..0xF4)
\* introduces; the buffers of this model hold no lead byte
gread_str(src, o) ==
    IF o >= Len(src) THEN [ok |-> FALSE, val |-> <<>>, off |-> o]
    ELSE LET len == take_while_not_nul(src, o)
             str == SubSeq(src, o + 1, o + len)
         IN  IF \E k \in 1..len : str[k] >= 128
             THEN [ok |-> FALSE, val |-> <<>>, off |-> o]
             ELSE [ok |-> TRUE, val |-> str, off |-> o + len + 1]

(***************************************************************************)
(* The metadata root and its stream headers.                               *)
(***************************************************************************)
pad_cursor_always(o) == o + (4 - (o % 4))

\* let padding = 4 - *offset % 4; if padding < 4 { *offset += padding; }
pad_cursor(o) ==
    LET padding == 4 - (o % 4)
    IN  IF padding < 4 THEN o + padding ELSE o

StreamHeader_try_from_ctx(src, o) ==
    LET offset_field == gread_int(src, o, 4)
        size == gread_int(src, offset_field.off, 4)
        nm == gread_str(src, size.off)
    IN  IF ~offset_field.ok \/ ~size.ok \/ ~nm.ok
        THEN [ok |-> FALSE, val |-> <<>>, off |-> o]
        ELSE [ok |-> TRUE,
              val |-> [offset |-> offset_field.val, size |-> size.val,
                       name |-> nm.val],
              off |-> nm.off]

\* for _ in 0..streams { stream_headers.push(src.gread(offset)?); pad }
RECURSIVE read_stream_headers(_, _, _, _)
read_stream_headers(src, o, n, acc) ==
    IF n = 0 THEN [ok |-> TRUE, val |-> acc, off |-> o]
    ELSE IF o >= Len(src) THEN [ok |-> FALSE, val |-> acc, off |-> o]
    ELSE LET h == StreamHeader_try_from_ctx(src, o)
         IN  IF ~h.ok THEN [ok |-> FALSE, val |-> acc, off |-> o]
             ELSE read_stream_headers(src, pad_cursor(h.off), n - 1,
                                      Append(acc, h.val))

RootErr == [NoRoot EXCEPT !.tag = "Err"]

MetadataRoot_try_from_ctx(src) ==
    LET signature == gread_int(src, 0, 4)
        major_version == gread_int(src, signature.off, 2)
        minor_version == gread_int(src, major_version.off, 2)
        reserved == gread_int(src, minor_version.off, 4)
        length == gread_int(src, reserved.off, 4)
        version == gread_str(src, length.off)
        flags == gread_int(src, pad_cursor(version.off), 2)
        streams == gread_int(src, flags.off, 2)
        hdrs == read_stream_headers(src, streams.off, streams.val, <<>>)
    IN  IF \/ ~signature.ok \/ ~major_version.ok \/ ~minor_version.ok
           \/ ~reserved.ok \/ ~length.ok \/ ~version.ok \/ ~flags.ok
           \/ ~streams.ok \/ ~hdrs.ok
        THEN RootErr
        ELSE [tag |-> "Ok", signature |-> signature.val,
              major_version |-> major_version.val,
              minor_version |-> minor_version.val,
              length |-> length.val, version |-> version.val,
              flags |-> flags.val, streams |-> streams.val,
              stream_headers |-> hdrs.val, off |-> hdrs.off]

(***************************************************************************)
(* The `#~` table stream.                                                  *)
(***************************************************************************)
table_sizes ==
    << 10, 6, 14, 0, 6, 0, 14, 0,
       6, 0, 6, 0, 6, 0, 0, 0,
       0, 2, 0, 0, 0, 0, 0, 0,
       0, 0, 0, 0, 0, 0, 0, 0,
       22, 0, 0, 20 >>

\* as if the probe j were 32 bits wide and shifted out after bit 31
valid_bit_u32(valid, i) ==
    i < 32 /\ (valid[(i \div 8) + 1] \div (2 ^ (i % 8))) % 2 = 1

\* valid & j == j for j = 1 << i, valid held as its 8 little-endian bytes
valid_bit(valid, i) ==
    (valid[(i \div 8) + 1] \div (2 ^ (i % 8))) % 2 = 1

\* for i in 0..64 { if valid & j == j { rows.push((i, gread()?)) } j <<= 1 }
RECURSIVE read_rows(_, _, _, _, _)
read_rows(src, o, i, valid, rows) ==
    IF i = 64 THEN [ok |-> TRUE, val |-> rows, off |-> o]
    ELSE IF valid_bit(valid, i)
    THEN LET count == gread_int(src, o, 4)
         IN  IF ~count.ok THEN [ok |-> FALSE, val |-> rows, off |-> o]
             ELSE read_rows(src, count.off, i + 1, valid,
                            Append(rows, <<i, count.val>>))
    ELSE read_rows(src, o, i + 1, valid, rows)

\* #[derive(Pread)] MethodDef: six fields read in order, 14 bytes
MethodDef_try_from_ctx(src, o) ==
    IF o >= Len(src) \/ Len(src) - o < 14
    THEN [ok |-> FALSE, val |-> <<>>, off |-> o]
    ELSE [ok |-> TRUE,
          val |-> [rva |-> LittleEndian(src, o, 4),
                   impl_flags |-> LittleEndian(src, o + 4, 2),
                   flags |-> LittleEndian(src, o + 6, 2),
                   name |-> LittleEndian(src, o + 8, 2),
                   signature |-> LittleEndian(src, o + 10, 2),
                   param_list |-> LittleEndian(src, o + 12, 2)],
          off |-> o + 14]

\* for _ in 0..count { methods.push(src.gread(offset)?); }
RECURSIVE read_methods(_, _, _, _)
read_methods(src, o, count, methods) ==
    IF count = 0 THEN [ok |-> TRUE, val |-> methods, off |-> o]
    ELSE LET m == MethodDef_try_from_ctx(src, o)
         IN  IF ~m.ok THEN [ok |-> FALSE, val |-> methods, off |-> o]
             ELSE read_methods(src, m.off, count - 1, Append(methods, m.val))

\* the u32 product a * b for a < 2^15 and b < 2^31, in 16-bit limbs:
\* whether it exceeds 2^32 - 1, and its low 32 bits
mul_u32(a, b) ==
    LET pl == a * (b % 65536)
        ph == a * (b \div 65536) + (pl \div 65536)
    IN  [overflow |-> ph >= 65536,
         val |-> (ph % 65536) * 65536 + (pl % 65536)]

TableOk(methods, o) ==
    [tag |-> "Ok", why |-> "", methods |-> methods, off |-> o]

\* every table skipped by its row width, the Method table too
decode_table_skip_only(src, o, i, count, methods, bld) ==
    IF i >= Len(table_sizes)
    THEN [tag |-> "Panic", why |-> "index out of bounds",
          methods |-> methods, off |-> o]
    ELSE LET p == mul_u32(table_sizes[i + 1], count)
         IN  IF p.overflow /\ bld = "debug"
             THEN [tag |-> "Panic", why |-> "multiply with overflow",
                   methods |-> methods, off |-> o]
             ELSE TableOk(methods, o + p.val)

\* one turn of `for (i, count) in rows`: the Method table (id 6) is decoded
\* row by row; any other table is skipped by table_sizes[i] * count, a u32
\* product (a panic under overflow checks, else wrapped), after an index
\* into table_sizes that panics for i >= 36
decode_table(src, o, i, count, methods, bld) ==
    IF i = 6
    THEN LET m == read_methods(src, o, count, methods)
         IN  IF m.ok THEN TableOk(m.val, m.off)
             ELSE [tag |-> "Err", why |-> "read", methods |-> m.val,
                   off |-> m.off]
    ELSE IF i >= Len(table_sizes)
    THEN [tag |-> "Panic", why |-> "index out of bounds",
          methods |-> methods, off |-> o]
    ELSE LET p == mul_u32(table_sizes[i + 1], count)
         IN  IF p.overflow /\ bld = "debug"
             THEN [tag |-> "Panic", why |-> "multiply with overflow",
                   methods |-> methods, off |-> o]
             ELSE TableOk(methods, o + p.val)

RECURSIVE decode_tables(_, _, _, _, _, _)
decode_tables(src, o, rows, k, methods, bld) ==
    IF k > Len(rows) THEN TableOk(methods, o)
    ELSE LET t == decode_table(src, o, rows[k][1], rows[k][2], methods, bld)
         IN  IF t.tag # "Ok" THEN t
             ELSE decode_tables(src, t.off, rows, k + 1, t.methods, bld)

TildaStream_try_from_ctx(src, bld) ==
    LET reserved == gread_int(src, 0, 4)
        major_version == gread_int(src, reserved.off, 1)
        minor_version == gread_int(src, major_version.off, 1)
        heap_sizes == gread_int(src, minor_version.off, 1)
        reserved2 == gread_int(src, heap_sizes.off, 1)
        valid == gread_bytes(src, reserved2.off, 8)
        sorted == gread_bytes(src, valid.off, 8)
        rows == read_rows(src, sorted.off, 0, valid.val, <<>>)
        t == decode_tables(src, rows.off, rows.val, 1, <<>>, bld)
    IN  IF \/ ~reserved.ok \/ ~major_version.ok \/ ~minor_version.ok
           \/ ~heap_sizes.ok \/ ~reserved2.ok \/ ~valid.ok \/ ~sorted.ok
        THEN [NoTilda EXCEPT !.tag = "Err", !.why = "read",
                             !.stage = "header"]
        ELSE IF ~rows.ok
        THEN [tag |-> "Err", why |-> "read", stage |-> "rows",
              valid |-> valid.val, rows |-> rows.val, methods |-> <<>>,
              off |-> rows.off]
        ELSE [tag |-> t.tag, why |-> t.why,
              stage |-> IF t.tag = "Ok" THEN "done" ELSE "tables",
              valid |-> valid.val, rows |-> rows.val, methods |-> t.methods,
              off |-> t.off]

(***************************************************************************)
(* The driver.                                                             *)
(***************************************************************************)
\* the slice &file[o..]
Drop(bytes, o) == SubSeq(bytes, o + 1, Len(bytes))

\* #[derive(Pread)] CliHeader: cb, major_version, minor_version, metadata
\* (virtual_address, size), flags, entry_point_token: 24 bytes
CliHeader_pread(bytes, o) ==
    IF o >= Len(bytes) \/ Len(bytes) - o < 24 THEN NoCli
    ELSE [tag |-> "Ok", metadata_va |-> LittleEndian(bytes, o + 8, 4),
          entry_point_token |-> LittleEndian(bytes, o + 20, 4)]

\* stream_headers.iter().find(|x| x.name == nm): its index, 0 for None
find_stream(hdrs, nm) ==
    LET hits == { i \in 1..Len(hdrs) : hdrs[i].name = nm }
    IN  IF hits = {} THEN 0 ELSE CHOOSE i \in hits : \A j \in hits : i <= j

(***************************************************************************)
(* Specification SpecAddr: find_offset applied to section lists, file      *)
(* alignments and addresses drawn from bounded sets.                       *)
(***************************************************************************)
MaxSections == 2

Sec(va, vs, ptr, raw) ==
    [virtual_address |-> va, virtual_size |-> vs,
     pointer_to_raw_data |-> ptr, size_of_raw_data |-> raw]

\* {va 0x2000, raw_ptr 0x200, raw_size 0x400}; an unaligned raw pointer 0x340
\* under a virtual size of 0x2000; a section smaller in memory than on disk;
\* a section with raw size 0x234.
SectionPool ==
    { Sec(8192, 0, 512, 1024),
      Sec(8192, 8192, 832, 4096),
      Sec(16384, 256, 1536, 512),
      Sec(24576, 6144, 4096, 564) }

SectionLists ==
    UNION { [1..n -> SectionPool] : n \in 0..MaxSections }

\* 0, 1, 0x200, 0x300 (not a power of two), 0x1000
FileAlignments == {0, 1, 512, 768, 4096}

Addresses ==
    { 0, 8191, 8192, 8256, 9215, 9216, 9472, 9727, 9728, 10240, 12287, 12288,
      16383, 16384, 16639, 16640, 16895, 16896, 20480,
      24576, 25139, 25140, 25599, 25600, 28672, 30720 }

InitAddr ==
    /\ pe = NoPe
    /\ pc = "find_offset"
    /\ build \in Builds
    /\ sections \in SectionLists
    /\ file_alignment \in FileAlignments
    /\ rva \in Addresses
    /\ offset = None
    /\ file = <<>>
    /\ given = [kind |-> "addr"]
    /\ root = NoRoot
    /\ tilda_stream = NoTilda
    /\ cli_header_value = NoCli
    /\ name = <<>>
    /\ ret = "running"

CallFindOffset ==
    /\ pc = "find_offset"
    /\ offset' = find_offset(rva, sections, file_alignment, build)
    /\ pc' = "returned"
    /\ UNCHANGED <<pe, build, sections, file_alignment, rva, file, given, root,
                   tilda_stream, cli_header_value, name, ret>>

NextAddr == CallFindOffset

SpecAddr == InitAddr /\ [][NextAddr]_vars

(***************************************************************************)
(* Properties of the address mapper.                                       *)
(***************************************************************************)
IsPowerOfTwo(n) == n > 0 /\ BitAnd(n, n - 1) = 0

\* x rounded up to a multiple of a (x itself when a is 0)
RoundUp(x, a) == IF a = 0 THEN x ELSE ((x + a - 1) \div a) * a

RoundDown(x, a) == (x \div a) * a

ReadableSize(s, fa) ==
    LET candidate ==
            Min(RoundUp(s.pointer_to_raw_data + s.size_of_raw_data, fa),
                RoundUp(s.size_of_raw_data, 4096))
    IN  IF s.virtual_size = 0 THEN candidate
        ELSE Min(candidate, RoundUp(s.virtual_size, 4096))

Covers(s, a, fa) ==
    s.virtual_address <= a /\ a < s.virtual_address + ReadableSize(s, fa)

\* index of the first section in list order that covers a, 0 when none does
FirstCovering(secs, a, fa) ==
    LET hits == { i \in 1..Len(secs) : Covers(secs[i], a, fa) }
    IN  IF hits = {} THEN 0 ELSE CHOOSE i \in hits : \A j \in hits : i <= j

ExpectedOffset(secs, a, fa) ==
    LET i == FirstCovering(secs, a, fa)
    IN  IF i = 0 THEN None
        ELSE Some((a - secs[i].virtual_address)
                    + RoundDown(secs[i].pointer_to_raw_data, 512))

\* C1 as stated: for every address, section list and file alignment,
\* find_offset returns Some((a - s.va) + align_down(s.raw_pointer, 0x200)) for
\* the first section s with s.va <= a < s.va + readable_size(s), and None
\* when there is no such section.  (Stated for the nonzero file alignments,
\* for which rounding up to a multiple is defined.)
C1_FindOffsetAnyAlignment ==
    (pc = "returned" /\ file_alignment > 0)
        => offset = ExpectedOffset(sections, rva, file_alignment)

\* C1 amended: the same, for every file alignment that is a power of two.
C1_FindOffsetPowerOfTwoAlignment ==
    (pc = "returned" /\ IsPowerOfTwo(file_alignment))
        => offset = ExpectedOffset(sections, rva, file_alignment)

\* address 0x2040 is found in the second section of the list, whose raw
\* pointer 0x340 is not a multiple of 0x200, and maps to 0x240
C1_Witness ==
    /\ pc = "returned"
    /\ IsPowerOfTwo(file_alignment)
    /\ rva = 8256
    /\ Len(sections) = 2
    /\ sections[1] = Sec(16384, 256, 1536, 512)
    /\ sections[2] = Sec(8192, 8192, 832, 4096)
    /\ offset = Some(576)

\* C2: an address inside a section's mapped range [va, va + readable_size)
\* maps to an offset inside that section's raw-data span
\* [raw_pointer, raw_pointer + raw_size); an address outside every section's
\* mapped range maps to None.  (Stated for power-of-two file alignments.)
C2_OffsetInsideRawSpan ==
    (pc = "returned" /\ IsPowerOfTwo(file_alignment)) =>
        LET i == FirstCovering(sections, rva, file_alignment)
        IN  IF i = 0 THEN offset = None
            ELSE /\ offset.tag = "Some"
                 /\ sections[i].pointer_to_raw_data <= offset.val
                 /\ offset.val < sections[i].pointer_to_raw_data
                                    + sections[i].size_of_raw_data

(***************************************************************************)
(* Specification SpecRoot: MetadataRoot::try_from_ctx applied to the byte  *)
(* layout of a metadata root with a version string and N stream headers,   *)
(* whole or cut short.                                                     *)
(***************************************************************************)
MaxStreams == 2

U16(v) == <<v % 256, (v \div 256) % 256>>

U32(v) == <<v % 256, (v \div 256) % 256, (v \div 65536) % 256,
            (v \div 16777216) % 256>>

Zeros(n) == [i \in 1..n |-> 0]

RECURSIVE Flatten(_)
Flatten(ss) == IF ss = <<>> THEN <<>> ELSE Head(ss) \o Flatten(Tail(ss))

\* a null-terminated string in a field padded to a multiple of 4 bytes
PaddedStr(str) == str \o Zeros(4 - (Len(str) % 4))

EncodeStreamHeader(h) == U32(h.offset) \o U32(h.size) \o PaddedStr(h.name)

\* signature "BSJB", version 1.1, reserved, length, version string, flags,
\* stream count, stream headers
EncodeRoot(version, hdrs) ==
    U32(1112167234) \o U16(1) \o U16(1) \o U32(0)
        \o U32(Len(PaddedStr(version))) \o PaddedStr(version)
        \o U16(0) \o U16(Len(hdrs))
        \o Flatten([i \in 1..Len(hdrs) |-> EncodeStreamHeader(hdrs[i])])

\* "#~", "#US", "#GUID", "#Strings": names of 2, 3, 5 and 8 bytes
NameTilda == <<35, 126>>
NameUS == <<35, 85, 83>>
NameGUID == <<35, 71, 85, 73, 68>>
NameStrings == <<35, 83, 116, 114, 105, 110, 103, 115>>

StreamHeaderPool ==
    { [offset |-> 108, size |-> 300, name |-> NameTilda],
      [offset |-> 408, size |-> 70000, name |-> NameStrings],
      [offset |-> 70408, size |-> 4, name |-> NameUS],
      [offset |-> 70412, size |-> 16, name |-> NameGUID] }

\* "", "v", "v4", "v4.", "v4.0", "v4.0.30319"
VersionPool ==
    { <<>>, <<118>>, <<118, 52>>, <<118, 52, 46>>, <<118, 52, 46, 48>>,
      <<118, 52, 46, 48, 46, 51, 48, 51, 49, 57>> }

\* bytes cut from the end of the encoding
CutPool == {0, 1, 6}

Truncate(bytes, cut) == SubSeq(bytes, 1, Len(bytes) - Min(cut, Len(bytes)))

InitRoot ==
    /\ pe = NoPe
    /\ pc = "decode_root"
    /\ build = "release"
    /\ sections = <<>>
    /\ file_alignment = 512
    /\ rva = 0
    /\ offset = None
    /\ \E version \in VersionPool, n \in 0..MaxStreams, cut \in CutPool :
         \E hdrs \in [1..n -> StreamHeaderPool] :
            /\ given = [kind |-> "root", version |-> version, hdrs |-> hdrs,
                        cut |-> cut]
            /\ file = Truncate(EncodeRoot(version, hdrs), cut)
    /\ root = NoRoot
    /\ tilda_stream = NoTilda
    /\ cli_header_value = NoCli
    /\ name = <<>>
    /\ ret = "running"

CallRootDecode ==
    /\ pc = "decode_root"
    /\ root' = MetadataRoot_try_from_ctx(file)
    /\ pc' = "returned"
    /\ UNCHANGED <<pe, build, sections, file_alignment, rva, offset, file, given,
                   tilda_stream, cli_header_value, name, ret>>

NextRoot == CallRootDecode

SpecRoot == InitRoot /\ [][NextRoot]_vars

\* the cursor after a null-terminated string that starts at c, padded
AfterStr(c, str) == LET e == c + Len(str) + 1 IN e + ((4 - (e % 4)) % 4)

RECURSIVE CursorAfterHeaders(_, _)
CursorAfterHeaders(c, hdrs) ==
    IF hdrs = <<>> THEN c
    ELSE CursorAfterHeaders(AfterStr(c + 8, Head(hdrs).name), Tail(hdrs))

\* C9: decoding a metadata root that encodes N stream headers yields exactly
\* those N records in order, and the cursor returned is the number of bytes
\* consumed, the cursor c being advanced by (4 - c % 4) % 4 after the
\* version string and after every stream-header name.
C9_RootRoundTrip ==
    (pc = "returned" /\ given.kind = "root" /\ given.cut = 0) =>
        /\ root.tag = "Ok"
        /\ root.version = given.version
        /\ root.streams = Len(given.hdrs)
        /\ root.stream_headers = given.hdrs
        /\ root.off = CursorAfterHeaders(AfterStr(16, given.version) + 4,
                                         given.hdrs)
        /\ root.off = Len(file)

\* two stream headers after a 4-byte version string: "#US" ends on a 4-byte
\* boundary (no padding), "#GUID" needs two bytes of padding
C9_Witness ==
    /\ pc = "returned"
    /\ given.kind = "root"
    /\ given.cut = 0
    /\ given.version = <<118, 52, 46>>
    /\ Len(given.hdrs) = 2
    /\ given.hdrs[1].name = NameUS
    /\ given.hdrs[2].name = NameGUID
    /\ root.tag = "Ok"
    /\ root.stream_headers = given.hdrs
    /\ root.off = 52

(***************************************************************************)
(* Specification SpecTilda: TildaStream::try_from_ctx applied to the byte  *)
(* layout of a `#~` stream with a given set of present tables and row      *)
(* counts, whole, cut short, or followed by further bytes.                 *)
(***************************************************************************)
MaxCount == 2

\* k-th lowest element of a set of naturals
Kth(S, k) == CHOOSE x \in S : Cardinality({ y \in S : y < x }) = k - 1

Bit(mask, n) == IF n \in mask THEN 1 ELSE 0

MaskBytes(mask) ==
    [b \in 1..8 |->
        LET n == 8 * (b - 1)
        IN  Bit(mask, n) + 2 * Bit(mask, n + 1) + 4 * Bit(mask, n + 2)
              + 8 * Bit(mask, n + 3) + 16 * Bit(mask, n + 4)
              + 32 * Bit(mask, n + 5) + 64 * Bit(mask, n + 6)
              + 128 * Bit(mask, n + 7)]

\* row r of the Method table: rva, impl_flags, flags, name, signature,
\* param_list
MethodRow(r) ==
    U32(8272 + 16 * r) \o U16(0) \o U16(150) \o U16(1 + 5 * (r - 1))
        \o U16(10) \o U16(r)

\* the row bytes of one table; none for a table of unknown width or with a
\* row count no buffer holds
TableData(id, count) ==
    IF id = 6 THEN Flatten([r \in 1..count |-> MethodRow(r)])
    ELSE IF id >= 36 \/ count > MaxCount THEN <<>>
    ELSE [j \in 1..(table_sizes[id + 1] * count) |-> 170]

EncodeTilda(mask, cnt) ==
    LET n == Cardinality(mask)
    IN  U32(0) \o <<2, 0, 0, 1>> \o MaskBytes(mask) \o MaskBytes({})
          \o Flatten([k \in 1..n |-> U32(cnt[Kth(mask, k)])])
          \o Flatten([k \in 1..n |->
                        TableData(Kth(mask, k), cnt[Kth(mask, k)])])

MaskPool ==
    { {}, {0}, {6}, {0, 6}, {0, 2, 6}, {1, 6, 8}, {6, 32}, {2, 35}, {36},
      {6, 63}, {0, 40}, {3, 6}, {6, 17} }

\* 0x1999999A rows of a 10-byte table: 10 * 0x1999999A = 2^32 + 4
CountPool == (0..MaxCount) \cup {429496730}

InitTilda ==
    /\ pe = NoPe
    /\ pc = "decode_tilda"
    /\ build \in Builds
    /\ sections = <<>>
    /\ file_alignment = 512
    /\ rva = 0
    /\ offset = None
    /\ \E mask \in MaskPool, cut \in {0, 1, 15}, tail \in {0, 4} :
         \E cnt \in [mask -> CountPool] :
            /\ cut = 0 \/ tail = 0
            /\ \A t \in mask : cnt[t] > MaxCount => t \in {0, 3}
            /\ given = [kind |-> "tilda", mask |-> mask, cnt |-> cnt,
                        cut |-> cut, tail |-> tail]
            /\ file = Truncate(EncodeTilda(mask, cnt), cut) \o Zeros(tail)
    /\ root = NoRoot
    /\ tilda_stream = NoTilda
    /\ cli_header_value = NoCli
    /\ name = <<>>
    /\ ret = "running"

CallTildaDecode ==
    /\ pc = "decode_tilda"
    /\ tilda_stream' = TildaStream_try_from_ctx(file, build)
    /\ pc' = "returned"
    /\ UNCHANGED <<pe, build, sections, file_alignment, rva, offset, file, given,
                   root, cli_header_value, name, ret>>

NextTilda == CallTildaDecode

SpecTilda == InitTilda /\ [][NextTilda]_vars

(***************************************************************************)
(* Properties of the table-stream decoder.  Exact sums are kept as a pair  *)
(* (hi, lo) standing for hi * 2^16 + lo.                                   *)
(***************************************************************************)
Wide(hi, lo) == [hi |-> hi + (lo \div 65536), lo |-> lo % 65536]

WideAdd(a, b) == Wide(a.hi + b.hi, a.lo + b.lo)

WideMul(w, c) == Wide(w * (c \div 65536), w * (c % 65536))

RowWidth(id) ==
    IF id = 6 THEN 14 ELSE IF id < 36 THEN table_sizes[id + 1] ELSE 0

RECURSIVE ExactRowBytes(_, _)
ExactRowBytes(rows, k) ==
    IF k > Len(rows) THEN Wide(0, 0)
    ELSE WideAdd(WideMul(RowWidth(rows[k][1]), rows[k][2]),
                 ExactRowBytes(rows, k + 1))

Decoded == pc = "returned" /\ tilda_stream.tag = "Ok"

\* C5: on a successful decode the cursor returned is 24 + 4 * popcount(valid)
\* + the sum over the recorded pairs (id, count) of width(id) * count, each
\* product exact.
C5_CursorIsExactSum ==
    Decoded =>
        Wide(0, tilda_stream.off)
            = WideAdd(Wide(0, 24 + 4 * Len(tilda_stream.rows)),
                      ExactRowBytes(tilda_stream.rows, 1))

\* C6: a successful decode never returns a cursor past the end of the buffer.
C6_CursorWithinBuffer ==
    Decoded => tilda_stream.off <= Len(file)

\* C7: whatever bits of valid are set, the decoder does not abort on an
\* out-of-range lookup in the width table.
C7_NoWidthLookupAbort ==
    pc = "returned" =>
        ~(tilda_stream.tag = "Panic"
            /\ tilda_stream.why = "index out of bounds")

\* C8: once the row counts are read, the recorded pairs are, in ascending
\* table-id order, one pair (i, count) for each set bit i of valid, the k-th
\* count of the stream paired with the k-th lowest set bit.
C8_RowsFollowValidBits ==
    (pc = "returned" /\ tilda_stream.stage \in {"tables", "done"}) =>
        /\ Len(tilda_stream.rows) = Cardinality(given.mask)
        /\ \A k \in 1..Len(tilda_stream.rows) :
              /\ tilda_stream.rows[k][1] = Kth(given.mask, k)
              /\ tilda_stream.rows[k][2]
                    = LittleEndian(file, 24 + 4 * (k - 1), 4)
              /\ tilda_stream.rows[k][2] = given.cnt[Kth(given.mask, k)]

C8_Witness ==
    /\ Decoded
    /\ given.mask = {1, 6, 8}
    /\ tilda_stream.rows = << <<1, 2>>, <<6, 1>>, <<8, 0>> >>

\* bit 63 is probed too: its pair is recorded before the tables are decoded
C8_WitnessHighBit ==
    /\ pc = "returned"
    /\ given.mask = {6, 63}
    /\ tilda_stream.stage = "tables"
    /\ tilda_stream.rows = << <<6, 2>>, <<63, 1>> >>

RECURSIVE CountFor(_, _, _)
CountFor(rows, id, k) ==
    IF k > Len(rows) THEN 0
    ELSE IF rows[k][1] = id THEN rows[k][2]
    ELSE CountFor(rows, id, k + 1)

\* C10: on a successful decode the Method rows are as many as the row count
\* recorded for table id 6 (none when bit 6 is unset, none for a count of 0):
\* no row of another table is among them.
C10_MethodRowsMatchCount ==
    Decoded =>
        /\ Len(tilda_stream.methods) = CountFor(tilda_stream.rows, 6, 1)
        /\ 6 \notin given.mask => tilda_stream.methods = <<>>
        /\ 6 \in given.mask => Len(tilda_stream.methods) = given.cnt[6]

C10_Witness ==
    /\ Decoded
    /\ given.mask = {0, 2, 6}
    /\ given.cnt[0] = 1
    /\ given.cnt[2] = 1
    /\ given.cnt[6] = 2
    /\ Len(tilda_stream.methods) = 2
    /\ tilda_stream.methods[2].name = 6

\* bit 6 set with a row count of 0: no row, no error
C10_WitnessZeroRows ==
    /\ Decoded
    /\ given.mask = {6}
    /\ given.cnt[6] = 0
    /\ tilda_stream.methods = <<>>

(***************************************************************************)
(* Specification SpecMain: main, from the parsed image to the printed      *)
(* name, on images laid out as: 8 bytes, the CLI header, the metadata      *)
(* root, the `#~` stream, the `#Strings` heap, further bytes.  The one     *)
(* section maps virtual address 0x2000 + o to file offset o.               *)
(***************************************************************************)
\* "\0Main\0Foo\0Bar\0"
StringsHeap == <<0, 77, 97, 105, 110, 0, 70, 111, 111, 0, 66, 97, 114, 0>>

\* bytes that follow the heap: three-letter strings, each null-terminated
FurtherBytes(n) == [j \in 1..n |-> IF j % 4 = 0 THEN 0 ELSE 64 + (j % 26)]

ImageVersion == <<118, 52>>

ImageStreams(variant, tildaLen) ==
    LET both == << [offset |-> 0, size |-> tildaLen, name |-> NameTilda],
                   [offset |-> 0, size |-> Len(StringsHeap),
                    name |-> NameStrings] >>
        chosen == IF variant = "both" THEN both
                  ELSE IF variant = "no_tilda" THEN <<both[2]>>
                  ELSE <<both[1]>>
        rootLen == Len(EncodeRoot(ImageVersion, chosen))
    IN  [i \in 1..Len(chosen) |->
            [chosen[i] EXCEPT !.offset =
                IF chosen[i].name = NameTilda THEN rootLen
                ELSE rootLen + tildaLen]]

BuildImage(token, metaRva, variant, tables, further) ==
    LET tilda == EncodeTilda(tables.mask, tables.cnt)
    IN  Zeros(8)
          \o U32(72) \o U16(2) \o U16(5) \o U32(metaRva) \o U32(72)
          \o U32(1) \o U32(token)
          \o EncodeRoot(ImageVersion, ImageStreams(variant, Len(tilda)))
          \o tilda \o StringsHeap \o FurtherBytes(further)

PePool ==
    { [machine |-> 332, optional_header |-> TRUE, clr_runtime_header |-> TRUE],
      [machine |-> 34404, optional_header |-> TRUE,
       clr_runtime_header |-> TRUE],
      [machine |-> 332, optional_header |-> FALSE,
       clr_runtime_header |-> FALSE],
      [machine |-> 332, optional_header |-> TRUE,
       clr_runtime_header |-> FALSE] }

\* 0x06000001, 0x06000002, 0x06000000, 0x06000003, 0x02000001
TokenPool == {100663297, 100663298, 100663296, 100663299, 33554433}

ImageTables ==
    { [mask |-> {6}, cnt |-> [t \in {6} |-> 2]],
      [mask |-> {0, 6}, cnt |-> [t \in {0, 6} |-> 1]],
      [mask |-> {6, 36}, cnt |-> [t \in {6, 36} |-> 1]] }

InitMain ==
    /\ pc = "main"
    /\ pe \in PePool
    /\ build \in Builds
    /\ sections = << Sec(8192, 0, 0, 512) >>
    /\ file_alignment = 512
    /\ rva \in {8200, 20480}
    /\ offset = None
    /\ \E token \in TokenPool, metaRva \in {8224, 20480},
          variant \in {"both", "no_tilda", "no_strings"},
          tables \in ImageTables, further \in {0, 64},
          keep \in {20, 40, 100, 512} :
            /\ given = [kind |-> "image", token |-> token,
                        metaRva |-> metaRva, variant |-> variant,
                        tables |-> tables, further |-> further,
                        keep |-> keep]
            /\ file = LET img == BuildImage(token, metaRva, variant, tables,
                                            further)
                      IN  SubSeq(img, 1, Min(keep, Len(img)))
    /\ root = NoRoot
    /\ tilda_stream = NoTilda
    /\ cli_header_value = NoCli
    /\ name = <<>>
    /\ ret = "running"

\* lines 200-209: the checks on what the image loader returned
MainCheckImage ==
    /\ pc = "main"
    /\ IF pe.machine # 332
       THEN pc' = "exit" /\ ret' = "Err: Is not a .Net executable"
       ELSE IF ~pe.optional_header
       THEN pc' = "exit" /\ ret' = "Err: No optional header"
       ELSE IF ~pe.clr_runtime_header
       THEN pc' = "exit" /\ ret' = "Err: No CLI header"
       ELSE pc' = "map_cli" /\ ret' = ret
    /\ UNCHANGED <<pe, build, sections, file_alignment, rva, offset, file,
                   given, root, tilda_stream, cli_header_value, name>>

\* what `find_offset(..).ok_or(err_msg(..))?` leaves in pc and ret
AfterFindOffset(o, next) ==
    IF o.tag = "Some" THEN pc' = next /\ ret' = ret
    ELSE IF o.tag = "None"
    THEN pc' = "exit" /\ ret' = "Err: Cannot map rva into offset"
    ELSE pc' = "exit" /\ ret' = "Panic"

\* lines 211-212
MainMapCliHeader ==
    /\ pc = "map_cli"
    /\ offset' = find_offset(rva, sections, file_alignment, build)
    /\ AfterFindOffset(offset', "read_cli")
    /\ UNCHANGED <<pe, build, sections, file_alignment, rva, file, given,
                   root, tilda_stream, cli_header_value, name>>

\* lines 213-215
MainReadCliHeader ==
    /\ pc = "read_cli"
    /\ cli_header_value' = CliHeader_pread(file, offset.val)
    /\ IF cli_header_value'.tag = "Ok" THEN pc' = "map_root" /\ ret' = ret
       ELSE pc' = "exit" /\ ret' = "Err: read"
    /\ UNCHANGED <<pe, build, sections, file_alignment, rva, offset, file,
                   given, root, tilda_stream, name>>

\* lines 216-217
MainMapMetadata ==
    /\ pc = "map_root"
    /\ rva' = cli_header_value.metadata_va
    /\ offset' = find_offset(rva', sections, file_alignment, build)
    /\ AfterFindOffset(offset', "read_root")
    /\ UNCHANGED <<pe, build, sections, file_alignment, file, given, root,
                   tilda_stream, cli_header_value, name>>

\* lines 218-219
MainReadRoot ==
    /\ pc = "read_root"
    /\ root' = IF offset.val >= Len(file) THEN RootErr
               ELSE MetadataRoot_try_from_ctx(Drop(file, offset.val))
    /\ IF root'.tag = "Ok" THEN pc' = "read_tilda" /\ ret' = ret
       ELSE pc' = "exit" /\ ret' = "Err: read"
    /\ UNCHANGED <<pe, build, sections, file_alignment, rva, offset, file,
                   given, tilda_stream, cli_header_value, name>>

\* lines 221-223: `find(..).unwrap()` panics when no stream is named "#~"
MainReadTilda ==
    /\ pc = "read_tilda"
    /\ LET i == find_stream(root.stream_headers, NameTilda)
           o == offset.val + root.stream_headers[i].offset
       IN  IF i = 0
           THEN /\ pc' = "exit" /\ ret' = "Panic"
                /\ UNCHANGED <<offset, tilda_stream>>
           ELSE /\ offset' = Some(o)
                /\ tilda_stream' =
                      IF o >= Len(file)
                      THEN [NoTilda EXCEPT !.tag = "Err", !.why = "read",
                                           !.stage = "header"]
                      ELSE TildaStream_try_from_ctx(Drop(file, o), build)
                /\ IF tilda_stream'.tag = "Ok"
                   THEN pc' = "read_name" /\ ret' = ret
                   ELSE IF tilda_stream'.tag = "Panic"
                   THEN pc' = "exit" /\ ret' = "Panic"
                   ELSE pc' = "exit" /\ ret' = "Err: read"
    /\ UNCHANGED <<pe, build, sections, file_alignment, rva, file, given,
                   root, cli_header_value, name>>

\* the offset main reads the name at: the offset of the `#~` stream (left in
\* `offset`) plus the offset field of the "#Strings" header, minus 4
name_offset(tildaOffset, stringsHeader) ==
    tildaOffset + stringsHeader.offset - 4

\* lines 225-228: `offset - 4` underflows for an offset below 4 (a panic
\* under overflow checks; wrapped, an offset past the end of the file)
MainReadName ==
    /\ pc = "read_name"
    /\ LET i == find_stream(root.stream_headers, NameStrings)
           o == offset.val + root.stream_headers[i].offset
           at == name_offset(offset.val, root.stream_headers[i])
           n == gread_str(file, at)
       IN  IF i = 0
           THEN /\ ret' = "Panic"
                /\ UNCHANGED <<offset, name>>
           ELSE /\ offset' = Some(o)
                /\ IF o < 4
                   THEN /\ ret' = IF build = "debug" THEN "Panic"
                                  ELSE "Err: read"
                        /\ name' = name
                   ELSE IF n.ok THEN ret' = "Ok" /\ name' = n.val
                   ELSE ret' = "Err: read" /\ name' = name
    /\ pc' = "exit"
    /\ UNCHANGED <<pe, build, sections, file_alignment, rva, file, given,
                   root, tilda_stream, cli_header_value>>

NextMain ==
    \/ MainCheckImage
    \/ MainMapCliHeader
    \/ MainReadCliHeader
    \/ MainMapMetadata
    \/ MainReadRoot
    \/ MainReadTilda
    \/ MainReadName

SpecMain == InitMain /\ [][NextMain]_vars

(***************************************************************************)
(* Properties of the entry-point resolution.                               *)
(***************************************************************************)
\* the null-terminated string that starts at offset o
CStrAt(bytes, o) ==
    LET ends == { e \in o..Len(bytes) : e = Len(bytes) \/ bytes[e + 1] = 0 }
    IN  SubSeq(bytes, o + 1, CHOOSE e \in ends : \A f \in ends : e <= f)

TokenTable == cli_header_value.entry_point_token \div 16777216

TokenRow == cli_header_value.entry_point_token % 16777216

TokenResolves ==
    /\ TokenTable = 6
    /\ TokenRow >= 1
    /\ TokenRow <= Len(tilda_stream.methods)

Reported == pc = "exit" /\ ret = "Ok"

\* C3: the name reported is the null-terminated string at file offset
\* (metadata root offset + offset field of the "#Strings" header + name field
\* of Method row r), r the row the entry-point token selects.
C3_NameIsEntryMethodName ==
    (Reported /\ TokenResolves) =>
        LET rootOffset == find_offset(cli_header_value.metadata_va, sections,
                                      file_alignment, build).val
            strings == root.stream_headers[
                          find_stream(root.stream_headers, NameStrings)]
            method == tilda_stream.methods[TokenRow]
        IN  name = CStrAt(file, rootOffset + strings.offset + method.name)

\* C4: a token with row index 0, a row index beyond the decoded Method rows,
\* or a table id other than 6 ends in a fatal error and no name is reported.
C4_BadTokenIsFatal ==
    (pc = "exit" /\ cli_header_value.tag = "Ok" /\ ~TokenResolves)
        => (ret # "Ok" /\ name = <<>>)

=============================================================================
